---- MODULE Spec2Model ----
(***************************************************************************)
(* Circular Contig Extractor (circular_contig_extractor.py).               *)
(*                                                                         *)
(* The program is a single-threaded pipeline:                              *)
(*   check_args, load_gfa, find_circular_contigs, trim_overlaps,           *)
(*   filter_by_size, filter_by_query, output_contigs.                      *)
(* Spec models main() step by step.  The other specifications apply one    *)
(* function of the program to every input of a bounded set.                *)
(*                                                                         *)
(* Text is modelled as a sequence of one-character strings, a Python list  *)
(* as a sequence, a dict as a function, None as the empty tuple and a      *)
(* present optional value v as <<v>>.                                      *)
(***************************************************************************)
EXTENDS Integers, Sequences, FiniteSets, TLC

VARIABLES
    pc,           \* the control point of the run
    args,         \* the parsed command line: min, max, query, mash
    file,         \* the leading bytes of a file on disk / the text of a file
    contigs,      \* main's "contigs" (or the contigs argument of a function)
    links,        \* the links of the graph
    queries,      \* the records iterate_fasta yields for the query file
    mash,         \* the distance tool: what it prints for a pair of records
    stdout,       \* records printed on standard output
    stderr,       \* the closest-query report lines of filter_by_query
    exit_status,  \* None while running, <<0>> or <<1>> once the run has ended
    stages,       \* the stages executed so far, in order
    mash_calls,   \* how many times the distance tool has been run
    temp_dir,     \* the temporary directory: None, or <<its files>> while it exists
    frame,        \* the local variables of get_all_mash_distances
    result        \* the value returned by the function under test

vars == <<pc, args, file, contigs, links, queries, mash, stdout, stderr,
          exit_status, stages, mash_calls, temp_dir, frame, result>>

None == <<>>

Some(v) == <<v>>

\* All sequences over S of length lo..hi.
SeqsOf(S, lo, hi) == UNION {[1..n -> S] : n \in lo..hi}

\* A normal return; an uncaught exception (further down) ends the run.
Return(v) == [kind |-> "return", value |-> v]

\* sys.exit(message) prints the message and ends the run with status 1;
\* sys.exit() ends it with status 0.
SysExit(msg) == [kind |-> "exit", message |-> msg, status |-> 1]

SysExitNoArg == [kind |-> "exit", message |-> "", status |-> 0]

Raise(e) == [kind |-> "raise", error |-> e]

\* The empty dict and d[k] = v.
EmptyDict == <<>>

DictSet(d, k, v) == [x \in (DOMAIN d) \cup {k} |-> IF x = k THEN v ELSE d[x]]

DictPop(d, k) == [x \in (DOMAIN d) \ {k} |-> d[x]]

(***************************************************************************)
(* find_circular_contigs                                                   *)
(***************************************************************************)

\* First loop: circular_links[seg_a] = cigar for every same-strand self-link
\* among the first k links; a later link overwrites an earlier one.
RECURSIVE circular_links_loop1(_, _)
circular_links_loop1(ls, k) ==
    IF k = 0 THEN EmptyDict
    ELSE LET d == circular_links_loop1(ls, k - 1)
             l == ls[k]
         IN  IF l.seg_a = l.seg_b /\ l.strand_a = l.strand_b
             THEN DictSet(d, l.seg_a, l.cigar)
             ELSE d

\* A faulty second loop that pops only the first endpoint.
RECURSIVE circular_links_loop2_mut(_, _, _)
circular_links_loop2_mut(d0, ls, k) ==
    IF k = 0 THEN d0
    ELSE LET d == circular_links_loop2_mut(d0, ls, k - 1)
             l == ls[k]
         IN  IF l.seg_a # l.seg_b \/ l.strand_a # l.strand_b
             THEN DictPop(d, l.seg_a)
             ELSE d

\* Second loop: every link that is not a same-strand self-link pops both of
\* its endpoints.
RECURSIVE circular_links_loop2(_, _, _)
circular_links_loop2(d0, ls, k) ==
    IF k = 0 THEN d0
    ELSE LET d == circular_links_loop2(d0, ls, k - 1)
             l == ls[k]
         IN  IF l.seg_a # l.seg_b \/ l.strand_a # l.strand_b
             THEN DictPop(DictPop(d, l.seg_a), l.seg_b)
             ELSE d

circular_links_of(ls) ==
    circular_links_loop2(circular_links_loop1(ls, Len(ls)), ls, Len(ls))

\* Third loop: the contigs whose name is a key, in contig order, each with
\* the cigar of its self-link.
RECURSIVE circular_contigs_loop(_, _, _)
circular_contigs_loop(cs, d, k) ==
    IF k = 0 THEN <<>>
    ELSE LET rest == circular_contigs_loop(cs, d, k - 1)
             c == cs[k]
         IN  IF c.name \in DOMAIN d
             THEN Append(rest, [name |-> c.name, seq |-> c.seq, cigar |-> d[c.name]])
             ELSE rest

find_circular_contigs(cs, ls) ==
    circular_contigs_loop(cs, circular_links_of(ls), Len(cs))

\* ---- inputs of SpecFindCircular ----

MaxLinks == 2

SegNames == {"1", "2"}

Strands == {"+", "-"}

Cigar5M == <<"5", "M">>

CigarStar == <<"*">>

SeqA == <<"A", "C", "G">>

LinkSet ==
    [seg_a : SegNames, strand_a : Strands, seg_b : SegNames, strand_b : Strands,
     cigar : {Cigar5M, CigarStar}]

\* Segment lists: empty, single, two distinct, a repeated name, and lists in
\* which segment "2" (named by links) is absent.
Contig(n) == [name |-> n, seq |-> SeqA]

ContigLists ==
    {<<>>, <<Contig("1")>>, <<Contig("2")>>, <<Contig("1"), Contig("2")>>,
     <<Contig("2"), Contig("1")>>, <<Contig("1"), Contig("1")>>}

InitFindCircular ==
    /\ pc = "find_circular_contigs"
    /\ contigs \in ContigLists
    /\ links \in SeqsOf(LinkSet, 0, MaxLinks)
    /\ args = None /\ file = None /\ queries = None /\ mash = None
    /\ stdout = None /\ stderr = None /\ exit_status = None /\ stages = None
    /\ result = None /\ mash_calls = 0 /\ temp_dir = None /\ frame = None

CallFindCircular ==
    /\ pc = "find_circular_contigs"
    /\ result' = find_circular_contigs(contigs, links)
    /\ pc' = "returned"
    /\ UNCHANGED <<args, file, contigs, links, queries, mash, stdout, stderr,
                   exit_status, stages, mash_calls, temp_dir, frame>>

NextFindCircular == CallFindCircular

SpecFindCircular == InitFindCircular /\ [][NextFindCircular]_vars

\* ---- C1 ----

\* Link l is a self-link of segment n with equal orientation symbols.
IsSameStrandSelfLink(l, n) ==
    l.seg_a = n /\ l.seg_b = n /\ l.strand_a = l.strand_b

\* Link l names segment n as one of its endpoints.
References(l, n) == l.seg_a = n \/ l.seg_b = n

\* The sub-sequence of s[1..k] at the positions in K, in order.
RECURSIVE SubListAt(_, _, _)
SubListAt(s, k, K) ==
    IF k = 0 THEN <<>>
    ELSE IF k \in K THEN Append(SubListAt(s, k - 1, K), s[k])
         ELSE SubListAt(s, k - 1, K)

SubList(s, K) == SubListAt(s, Len(s), K)

NamesOf(s) == {s[i].name : i \in DOMAIN s}

StripCigar(s) == [i \in DOMAIN s |-> [name |-> s[i].name, seq |-> s[i].seq]]

\* C1 as stated: a segment is circular iff EXACTLY ONE link is a same-strand
\* self-link of it and no other link references it.
C1_ExactlyOne(n) ==
    \E i \in DOMAIN links :
        /\ IsSameStrandSelfLink(links[i], n)
        /\ \A j \in DOMAIN links : j # i => ~References(links[j], n)

\* C1 (original statement): the returned circular set holds exactly the
\* segments with exactly one same-strand self-link and no other link naming
\* them, in segment order, and no name absent from the segment list.
C1_Original ==
    pc = "returned" =>
        /\ StripCigar(result) = SubList(contigs, {i \in DOMAIN contigs : C1_ExactlyOne(contigs[i].name)})
        /\ NamesOf(result) \subseteq NamesOf(contigs)

\* The amended condition: AT LEAST ONE same-strand self-link, and no link with
\* differing endpoints or differing orientation symbols references it.
C1_Qualifies(n) ==
    /\ \E i \in DOMAIN links : IsSameStrandSelfLink(links[i], n)
    /\ \A j \in DOMAIN links :
          References(links[j], n) => IsSameStrandSelfLink(links[j], n)

\* The cigar of the last same-strand self-link of n.
C1_LastCigar(n) ==
    LET I == {i \in DOMAIN links : IsSameStrandSelfLink(links[i], n)}
        m == CHOOSE i \in I : \A j \in I : j <= i
    IN  links[m].cigar

\* C1 (amended): a segment of the segment list is in the returned circular set
\* iff it has at least one same-strand self-link and every link that references
\* it is such a self-link; the result keeps the order of the segment list,
\* holds no name absent from it, and pairs each segment with the descriptor of
\* its last self-link.
C1_FindCircular ==
    pc = "returned" =>
        /\ StripCigar(result) = SubList(contigs, {i \in DOMAIN contigs : C1_Qualifies(contigs[i].name)})
        /\ NamesOf(result) \subseteq NamesOf(contigs)
        /\ \A i \in DOMAIN result : result[i].cigar = C1_LastCigar(result[i].name)

\* C1, reached: segment "1" has two same-strand self-links with different
\* descriptors and no other link, and it has been returned; segment "2", which
\* no link names, has not.
C1_Witness ==
    /\ pc = "returned"
    /\ Len(links) = 2
    /\ IsSameStrandSelfLink(links[1], "1")
    /\ IsSameStrandSelfLink(links[2], "1")
    /\ links[1].cigar # links[2].cigar
    /\ contigs = <<Contig("2"), Contig("1")>>
    /\ Len(result) = 1

(***************************************************************************)
(* trim_overlaps, get_overlap_from_cigar, trim_seq                         *)
(***************************************************************************)

Digits == <<"0", "1", "2", "3", "4", "5", "6", "7", "8", "9">>

IsDigit(c) == \E i \in DOMAIN Digits : Digits[i] = c

DigitValue(c) == (CHOOSE i \in DOMAIN Digits : Digits[i] = c) - 1

\* int(text) for a text of decimal digits.
RECURSIVE int(_)
int(t) ==
    IF Len(t) = 0 THEN 0
    ELSE 10 * int(SubSeq(t, 1, Len(t) - 1)) + DigitValue(t[Len(t)])

\* re.match(r'^(\d+)M$', cigar): one or more digits, then "M", then the end
\* of the text; "$" also matches just before a line break that ends the text.
\* Returns Some(int(group 1)) or None.
get_overlap_from_cigar(cigar) ==
    LET n == Len(cigar)
        body == IF n >= 1 /\ cigar[n] = "\n" THEN SubSeq(cigar, 1, n - 1) ELSE cigar
        m == Len(body)
    IN  IF /\ m >= 2
           /\ body[m] = "M"
           /\ \A i \in 1..(m - 1) : IsDigit(body[i])
        THEN Some(int(SubSeq(body, 1, m - 1)))
        ELSE None

\* A faulty slice that takes an end index at or before the start as the end
\* of the sequence.
SliceToNegative_mut(seq, stop) ==
    LET e == Len(seq) + stop
    IN  SubSeq(seq, 1, IF e <= 0 THEN Len(seq) ELSE e)

\* seq[:stop] for a negative stop: the end index is len(seq) + stop, clamped
\* to 0.
SliceToNegative(seq, stop) ==
    LET e == Len(seq) + stop
    IN  SubSeq(seq, 1, IF e < 0 THEN 0 ELSE e)

\* A faulty trim_seq that keeps the leading characters: seq[:trim_amount].
trim_seq_mut(seq, trim_amount) ==
    IF trim_amount = None \/ trim_amount = Some(0)
    THEN seq
    ELSE SubSeq(seq, 1, IF trim_amount[1] > Len(seq) THEN Len(seq) ELSE trim_amount[1])

trim_seq(seq, trim_amount) ==
    IF trim_amount = None \/ trim_amount = Some(0)
    THEN seq
    ELSE SliceToNegative(seq, 0 - trim_amount[1])

trim_overlaps(cs) ==
    [i \in DOMAIN cs |->
        [name |-> cs[i].name,
         seq |-> trim_seq(cs[i].seq, get_overlap_from_cigar(cs[i].cigar))]]

\* ---- inputs of SpecTrim ----

MaxTrimSeqLen == 3

MaxCigarLen == 3

\* Descriptors are fields of a tab-split line whose line break load_gfa has
\* stripped, so they hold neither a tab nor a line break.
CigarChars == {"0", "1", "2", "M", "*"}

Bases == {"A", "C"}

\* A fixed neighbour, to make lists of one to three segments.
TrimNeighbour == [name |-> "n", seq |-> <<"A", "C">>, cigar |-> <<"1", "M">>]

TrimPadding == {<<>>, <<TrimNeighbour>>}

InitTrim ==
    /\ pc = "trim_overlaps"
    /\ \E s \in SeqsOf(Bases, 0, MaxTrimSeqLen), c \in SeqsOf(CigarChars, 0, MaxCigarLen),
          before \in TrimPadding, after \in TrimPadding :
            contigs = before \o <<[name |-> "1", seq |-> s, cigar |-> c]>> \o after
    /\ args = None /\ file = None /\ links = None /\ queries = None /\ mash = None
    /\ stdout = None /\ stderr = None /\ exit_status = None /\ stages = None
    /\ result = None /\ mash_calls = 0 /\ temp_dir = None /\ frame = None

CallTrim ==
    /\ pc = "trim_overlaps"
    /\ result' = trim_overlaps(contigs)
    /\ pc' = "returned"
    /\ UNCHANGED <<args, file, contigs, links, queries, mash, stdout, stderr,
                   exit_status, stages, mash_calls, temp_dir, frame>>

NextTrim == CallTrim

SpecTrim == InitTrim /\ [][NextTrim]_vars

\* ---- C2 ----

\* The whole descriptor is an integer followed by the literal "M".
IsIntegerM(c) ==
    /\ Len(c) >= 2
    /\ c[Len(c)] = "M"
    /\ \A i \in 1..(Len(c) - 1) : c[i] \in {"0", "1", "2", "3", "4", "5", "6", "7", "8", "9"}

RECURSIVE Pow10(_)
Pow10(k) == IF k = 0 THEN 1 ELSE 10 * Pow10(k - 1)

RECURSIVE PositionalSum(_, _)
PositionalSum(c, i) ==
    IF i = 0 THEN 0
    ELSE DigitValue(c[i]) * Pow10(Len(c) - 1 - i) + PositionalSum(c, i - 1)

\* The integer N of a descriptor "N M".
IntegerOf(c) == PositionalSum(c, Len(c) - 1)

\* out is inp with exactly its k trailing characters removed.
RemovedTail(inp, out, k) ==
    /\ Len(out) = Len(inp) - k
    /\ \A i \in 1..Len(out) : out[i] = inp[i]

Min(a, b) == IF a <= b THEN a ELSE b

\* C2 (original statement): names and order are unchanged; a descriptor that
\* is an integer N followed by "M" removes exactly the N trailing characters;
\* every other descriptor leaves the sequence unchanged.
C2_Original ==
    pc = "returned" =>
        /\ Len(result) = Len(contigs)
        /\ \A i \in DOMAIN contigs :
            /\ result[i].name = contigs[i].name
            /\ IF IsIntegerM(contigs[i].cigar)
               THEN RemovedTail(contigs[i].seq, result[i].seq, IntegerOf(contigs[i].cigar))
               ELSE result[i].seq = contigs[i].seq

\* C2 (amended): names and order are unchanged; a descriptor that is an
\* integer N followed by "M" removes the N trailing characters when N is at
\* most the length of the sequence and leaves the empty sequence when N is
\* larger; every other descriptor leaves the sequence unchanged.
C2_TrimOverlaps ==
    pc = "returned" =>
        /\ Len(result) = Len(contigs)
        /\ \A i \in DOMAIN contigs :
            /\ result[i].name = contigs[i].name
            /\ IF IsIntegerM(contigs[i].cigar)
               THEN RemovedTail(contigs[i].seq, result[i].seq,
                                Min(IntegerOf(contigs[i].cigar), Len(contigs[i].seq)))
               ELSE result[i].seq = contigs[i].seq

\* C2, reached: a list of three segments has been trimmed: "02M" took two characters off
\* the middle one and "1M" one off each neighbour.
C2_Witness ==
    /\ pc = "returned"
    /\ Len(contigs) = 3
    /\ contigs[2].seq = <<"A", "C", "C">>
    /\ contigs[2].cigar = <<"0", "2", "M">>
    /\ result[2].seq = <<"A">>
    /\ result[1].seq = <<"A">>

\* ---- C12 ----

\* The overlap trim_overlaps parsed for segment i is at least 1 and at least
\* the length of the segment's sequence.
OverlapCoversSeq(i) ==
    LET overlap == get_overlap_from_cigar(contigs[i].cigar)
    IN  /\ overlap # None
        /\ overlap[1] >= 1
        /\ overlap[1] >= Len(contigs[i].seq)

\* C12: for every sequence and every parsed overlap N >= 1 that is greater
\* than or equal to the length of the sequence, trimming returns the empty
\* sequence and raises no error (the call returns a list of the same length).
C12_TrimToEmpty ==
    pc = "returned" =>
        /\ Len(result) = Len(contigs)
        /\ \A i \in DOMAIN contigs :
            OverlapCoversSeq(i) => result[i].seq = <<>>

\* C12, reached: overlap 12 has emptied the two-character sequence "AC",
\* while the neighbour, trimmed by 1 of its 2 characters, is not empty.
C12_Witness ==
    /\ pc = "returned"
    /\ Len(contigs) = 2
    /\ contigs[1].seq = <<"A", "C">>
    /\ contigs[1].cigar = <<"1", "2", "M">>
    /\ result[1].seq = <<>>
    /\ result[2].seq = <<"A">>

(***************************************************************************)
(* filter_by_size                                                          *)
(***************************************************************************)

\* A faulty comparison: > instead of >=.
size_at_least_mut(s, min_size) == Len(s.seq) > min_size

size_at_least(s, min_size) == Len(s.seq) >= min_size

size_at_most(s, max_size) == Len(s.seq) <= max_size

filter_by_size(cs, min_size, max_size) ==
    LET cs1 == IF min_size # None
               THEN SelectSeq(cs, LAMBDA s : size_at_least(s, min_size[1]))
               ELSE cs
    IN  IF max_size # None
        THEN SelectSeq(cs1, LAMBDA s : size_at_most(s, max_size[1]))
        ELSE cs1

\* ---- inputs of SpecSize ----

MaxSizeContigs == 3

MaxSizeSeqLen == 3

SizeContigs ==
    {[name |-> "1", seq |-> [i \in 1..n |-> "A"]] : n \in 0..MaxSizeSeqLen}

SizeBounds == {None} \cup {Some(b) : b \in 0..(MaxSizeSeqLen + 1)}

InitSize ==
    /\ pc = "filter_by_size"
    /\ contigs \in SeqsOf(SizeContigs, 0, MaxSizeContigs)
    /\ args \in [min : SizeBounds, max : SizeBounds]
    /\ file = None /\ links = None /\ queries = None /\ mash = None
    /\ stdout = None /\ stderr = None /\ exit_status = None /\ stages = None
    /\ result = None /\ mash_calls = 0 /\ temp_dir = None /\ frame = None

CallSize ==
    /\ pc = "filter_by_size"
    /\ result' = filter_by_size(contigs, args.min, args.max)
    /\ pc' = "returned"
    /\ UNCHANGED <<args, file, contigs, links, queries, mash, stdout, stderr,
                   exit_status, stages, mash_calls, temp_dir, frame>>

NextSize == CallSize

SpecSize == InitSize /\ [][NextSize]_vars

\* ---- C3 ----

\* C3: the result is exactly the sub-list, in the original order and with
\* unmodified entries, of the segments whose length is >= min when min is
\* given and <= max when max is given.
C3_FilterBySize ==
    pc = "returned" =>
        result = SubList(contigs,
                         {i \in DOMAIN contigs :
                            /\ args.min # None => Len(contigs[i].seq) >= args.min[1]
                            /\ args.max # None => Len(contigs[i].seq) <= args.max[1]})

\* C3, reached: bounds (2, 3) over lengths 1, 2, 3: the segments of length 2 and 3, which
\* sit on the two inclusive bounds, have been kept.
C3_Witness ==
    /\ pc = "returned"
    /\ args = [min |-> Some(2), max |-> Some(3)]
    /\ Len(contigs) = 3
    /\ Len(contigs[1].seq) = 1 /\ Len(contigs[2].seq) = 2 /\ Len(contigs[3].seq) = 3
    /\ result = <<contigs[2], contigs[3]>>

(***************************************************************************)
(* get_compression_type, get_open_func                                     *)
(***************************************************************************)

\* magic_dict, in insertion order.  Each value is a TUPLE of one-byte strings:
\* 1F 8B 08, 42 5A 68 and 50 4B 03 04.
magic_dict ==
    << [file_type |-> "gz",  magic_bytes |-> << <<31>>, <<139>>, <<8>> >>],
       [file_type |-> "bz2", magic_bytes |-> << <<66>>, <<90>>, <<104>> >>],
       [file_type |-> "zip", magic_bytes |-> << <<80>>, <<75>>, <<3>>, <<4>> >>] >>

\* max(len(x) for x in magic_dict): iterating a dict yields its KEYS, so this
\* is the length of the longest key.
max_len ==
    LET L == {Len(magic_dict[i].file_type) : i \in DOMAIN magic_dict}
    IN  CHOOSE n \in L : \A k \in L : k <= n

\* unknown_file.read(max_len)
read(bytes, n) == SubSeq(bytes, 1, Min(n, Len(bytes)))

\* bytes.startswith(prefix) for one prefix
starts_with_one(b, prefix) ==
    /\ Len(prefix) <= Len(b)
    /\ \A i \in DOMAIN prefix : b[i] = prefix[i]

\* bytes.startswith(tuple): true when ANY element of the tuple is a prefix.
startswith(b, prefixes) ==
    \E i \in DOMAIN prefixes : starts_with_one(b, prefixes[i])

\* The loop over magic_dict.items(): a later matching entry overwrites.
RECURSIVE compression_type_loop(_, _)
compression_type_loop(file_start, k) ==
    IF k = 0 THEN "plain"
    ELSE IF startswith(file_start, magic_dict[k].magic_bytes)
         THEN magic_dict[k].file_type
         ELSE compression_type_loop(file_start, k - 1)

get_compression_type(bytes) ==
    LET file_start == read(bytes, max_len)
        compression_type == compression_type_loop(file_start, Len(magic_dict))
    IN  IF compression_type = "bz2"
        THEN SysExit("Error: cannot use bzip2 format - use gzip instead")
        ELSE IF compression_type = "zip"
        THEN SysExit("Error: cannot use zip format - use gzip instead")
        ELSE Return(compression_type)

get_open_func(bytes) ==
    LET t == get_compression_type(bytes)
    IN  IF t.kind # "return" THEN t
        ELSE IF t.value = "gz" THEN Return("gzip.open")
        ELSE Return("open")

\* ---- inputs of SpecCompression ----

MaxFileBytes == 4

\* The bytes of the three signatures, and "S" (0x53), the first byte of a
\* segment line.
FileBytes == {31, 139, 8, 66, 90, 104, 80, 75, 3, 4, 83}

InitCompression ==
    /\ pc = "get_open_func"
    /\ file \in SeqsOf(FileBytes, 0, MaxFileBytes)
    /\ args = None /\ contigs = None /\ links = None /\ queries = None
    /\ mash = None /\ stdout = None /\ stderr = None /\ exit_status = None
    /\ stages = None /\ result = None /\ mash_calls = 0 /\ temp_dir = None /\ frame = None

\* get_compression_type(filename) and get_open_func(filename) on one file.
CallCompression ==
    /\ pc = "get_open_func"
    /\ result' = [compression_type |-> get_compression_type(file),
                  open_func |-> get_open_func(file)]
    /\ pc' = "returned"
    /\ UNCHANGED <<args, file, contigs, links, queries, mash, stdout, stderr,
                   exit_status, stages, mash_calls, temp_dir, frame>>

NextCompression == CallCompression

SpecCompression == InitCompression /\ [][NextCompression]_vars

\* ---- C7 ----

\* The file's leading bytes are the full sequence sig.
LeadingBytesAre(sig) ==
    /\ Len(file) >= Len(sig)
    /\ \A i \in DOMAIN sig : file[i] = sig[i]

\* C7: the file is gzip exactly when its leading bytes are 1F 8B 08, bzip2
\* exactly when they are 42 5A 68, zip exactly when they are 50 4B 03 04, and
\* plain otherwise; bzip2 and zip are fatal, gzip is opened with the gzip
\* reader and plain with the ordinary reader.
C7_Compression ==
    pc = "returned" =>
        LET t == result.compression_type
            f == result.open_func
            gz == LeadingBytesAre(<<31, 139, 8>>)
            bz2 == LeadingBytesAre(<<66, 90, 104>>)
            zip == LeadingBytesAre(<<80, 75, 3, 4>>)
        IN  /\ gz <=> (t = Return("gz") /\ f = Return("gzip.open"))
            /\ bz2 <=> (t = SysExit("Error: cannot use bzip2 format - use gzip instead")
                        /\ f.kind = "exit")
            /\ zip <=> (t = SysExit("Error: cannot use zip format - use gzip instead")
                        /\ f.kind = "exit")
            /\ (~gz /\ ~bz2 /\ ~zip) <=> (t = Return("plain") /\ f = Return("open"))

(***************************************************************************)
(* get_mash_distance                                                       *)
(***************************************************************************)

\* float(text) on the texts of the model: the distance in hundredths, or a
\* ValueError for a text that is no number.
FloatTable == [t \in {"0.0", "0.05", "0.1", "0.2"} |->
                 CASE t = "0.0" -> 0 [] t = "0.05" -> 5 [] t = "0.1" -> 10 [] t = "0.2" -> 20]

float(t) ==
    IF t \in DOMAIN FloatTable THEN Return(FloatTable[t]) ELSE Raise("ValueError")

\* The loop over p.stdout.  A line is its list of tab-separated parts;
\* parts[2] raises IndexError on a line of fewer than three parts.
RECURSIVE mash_distances_loop(_, _)
mash_distances_loop(lines, k) ==
    IF k = 0 THEN Return(<<>>)
    ELSE LET sofar == mash_distances_loop(lines, k - 1)
             parts == lines[k]
         IN  IF sofar.kind # "return" THEN sofar
             ELSE IF Len(parts) < 3 THEN Raise("IndexError")
             ELSE LET distance == float(parts[3])
                  IN  IF distance.kind # "return" THEN distance
                      ELSE Return(Append(sofar.value, distance.value))

MashError(diagnostic) ==
    SysExit(<<"Error: mash dist did not run successfully:", diagnostic>>)

\* p is what the tool printed: its stdout lines and its stderr text.
get_mash_distance(p) ==
    LET distances == mash_distances_loop(p.stdout, Len(p.stdout))
    IN  IF distances.kind # "return" THEN distances
        ELSE IF Len(distances.value) # 1 THEN MashError(p.stderr)
        ELSE Return(distances.value[1])

\* The exit status of a run ended by sys.exit or by an uncaught exception.
ExitStatus(outcome) == IF outcome.kind = "exit" THEN outcome.status ELSE 1

\* ---- inputs of SpecMash ----

MaxMashLines == 2

\* Lines of one, two, three and five parts, with a numeric or a non-numeric
\* third part.
MashLines ==
    { <<"a">>, <<"a", "b">>, <<"a", "b", "0.05">>, <<"a", "b", "x">>,
      <<"a", "b", "0.0", "0", "1000/1000">>, <<"a", "b", "0.2", "0", "1/1000">> }

InitMash ==
    /\ pc = "get_mash_distance"
    /\ mash \in [stdout : SeqsOf(MashLines, 0, MaxMashLines),
                 stderr : {"", "ERROR: could not open file"}]
    /\ args = None /\ file = None /\ contigs = None /\ links = None
    /\ queries = None /\ stdout = None /\ stderr = None /\ exit_status = None
    /\ stages = None /\ result = None /\ mash_calls = 0 /\ temp_dir = None /\ frame = None

CallMash ==
    /\ pc = "get_mash_distance"
    /\ result' = get_mash_distance(mash)
    /\ pc' = "returned"
    /\ UNCHANGED <<args, file, contigs, links, queries, mash, stdout, stderr,
                   exit_status, stages, mash_calls, temp_dir, frame>>

NextMash == CallMash

SpecMash == InitMash /\ [][NextMash]_vars

\* ---- C8 ----

\* C8: if the tool emits exactly one output line the function returns the
\* third tab-delimited field of that line as the distance; if it emits zero
\* lines or more than one line, the run ends with a fatal error whose message
\* carries the tool's diagnostic output, and no distance is returned.
C8_MashDistance ==
    pc = "returned" =>
        IF Len(mash.stdout) = 1
        THEN /\ Len(mash.stdout[1]) >= 3
             /\ float(mash.stdout[1][3]).kind = "return"
             /\ result = Return(float(mash.stdout[1][3]).value)
        ELSE /\ result = MashError(mash.stderr)
             /\ ExitStatus(result) # 0

(***************************************************************************)
(* write_fasta, iterate_fasta                                              *)
(***************************************************************************)

\* f.write(f'>{name}\n'); f.write(f'{seq}\n')
write_fasta(name, seq) == <<">">> \o name \o <<"\n">> \o seq \o <<"\n">>

\* The byte of each character of the model's texts.
ord(c) ==
    CASE c = ">" -> 62 [] c = "A" -> 65 [] c = "a" -> 97 [] c = " " -> 32
      [] c = "\n" -> 10 [] c = "\t" -> 9 [] c = "P" -> 80 [] c = "K" -> 75

IsSpace(c) == c \in {" ", "\n", "\t"}

\* The lines of a text file, each without its line break.
RECURSIVE text_lines(_, _)
text_lines(text, current) ==
    IF text = <<>> THEN (IF current = <<>> THEN <<>> ELSE <<current>>)
    ELSE IF Head(text) = "\n" THEN <<current>> \o text_lines(Tail(text), <<>>)
    ELSE text_lines(Tail(text), Append(current, Head(text)))

RECURSIVE lstrip(_)
lstrip(t) == IF t # <<>> /\ IsSpace(Head(t)) THEN lstrip(Tail(t)) ELSE t

RECURSIVE rstrip(_)
rstrip(t) ==
    IF t # <<>> /\ IsSpace(t[Len(t)]) THEN rstrip(SubSeq(t, 1, Len(t) - 1)) ELSE t

\* str.strip()
strip(t) == rstrip(lstrip(t))

\* str.upper()
upper(t) == [i \in DOMAIN t |-> IF t[i] = "a" THEN "A" ELSE t[i]]

\* The leading characters of t up to the first white space.
RECURSIVE until_space(_)
until_space(t) ==
    IF t = <<>> \/ IsSpace(Head(t)) THEN <<>>
    ELSE <<Head(t)>> \o until_space(Tail(t))

\* A faulty name: the whole header text instead of its first token.
first_name_part_mut(name) == name

\* name.split(maxsplit=1)[0]: the first white-space-delimited token.
first_name_part(name) == until_space(lstrip(name))

\* The loop over the lines: st holds the generator's name and sequence and
\* the records yielded so far.  sequence is reset only when a record is
\* yielded.
RECURSIVE iterate_fasta_loop(_, _)
iterate_fasta_loop(lines, k) ==
    IF k = 0 THEN [name |-> <<>>, sequence |-> <<>>, yielded |-> <<>>]
    ELSE LET st == iterate_fasta_loop(lines, k - 1)
             line == strip(lines[k])
         IN  IF line = <<>> THEN st
             ELSE IF line[1] = ">"
             THEN IF st.name # <<>>
                  THEN [name |-> Tail(line), sequence |-> <<>>,
                        yielded |-> Append(st.yielded,
                                           [name |-> first_name_part(st.name),
                                            seq |-> st.sequence])]
                  ELSE [st EXCEPT !.name = Tail(line)]
             ELSE [st EXCEPT !.sequence = st.sequence \o upper(line)]

\* list(iterate_fasta(filename)) for a file holding text: the records, or the
\* fatal exit of get_open_func.
iterate_fasta(text) ==
    LET open_func == get_open_func([i \in DOMAIN text |-> ord(text[i])])
        lines == text_lines(text, <<>>)
        st == iterate_fasta_loop(lines, Len(lines))
    IN  IF open_func.kind # "return" THEN open_func
        ELSE IF st.name # <<>>
        THEN Return(Append(st.yielded,
                           [name |-> first_name_part(st.name), seq |-> st.sequence]))
        ELSE Return(st.yielded)

\* ---- inputs of SpecFasta ----

MaxFastaNameLen == 3

MaxFastaSeqLen == 2

\* An upper-case letter, a lower-case letter, a blank and the header mark.
\* Names and sequences come from lines of text, so they hold no line break.
FastaChars == {"A", "a", " ", ">"}

\* contigs holds the one record (name, seq) handed to write_fasta.
InitFasta ==
    /\ pc = "write_fasta"
    /\ contigs \in [name : SeqsOf(FastaChars, 0, MaxFastaNameLen),
                    seq : SeqsOf(FastaChars, 0, MaxFastaSeqLen)]
    /\ file = None
    /\ args = None /\ links = None /\ queries = None /\ mash = None
    /\ stdout = None /\ stderr = None /\ exit_status = None /\ stages = None
    /\ result = None /\ mash_calls = 0 /\ temp_dir = None /\ frame = None

CallWriteFasta ==
    /\ pc = "write_fasta"
    /\ file' = write_fasta(contigs.name, contigs.seq)
    /\ pc' = "iterate_fasta"
    /\ UNCHANGED <<args, contigs, links, queries, mash, stdout, stderr,
                   exit_status, stages, mash_calls, temp_dir, frame, result>>

CallIterateFasta ==
    /\ pc = "iterate_fasta"
    /\ result' = iterate_fasta(file)
    /\ pc' = "returned"
    /\ UNCHANGED <<args, file, contigs, links, queries, mash, stdout, stderr,
                   exit_status, stages, mash_calls, temp_dir, frame>>

NextFasta == CallWriteFasta \/ CallIterateFasta

SpecFasta == InitFasta /\ [][NextFasta]_vars

\* ---- C9 ----

\* The first white-space-delimited token of t (empty when t has none).
RECURSIVE FirstToken(_, _)
FirstToken(t, i) ==
    IF i > Len(t) THEN <<>>
    ELSE IF t[i] \in {" ", "\n", "\t"} THEN FirstToken(t, i + 1)
    ELSE LET E == {j \in i..Len(t) : \A k \in i..j : t[k] \notin {" ", "\n", "\t"}}
             e == CHOOSE j \in E : \A k \in E : k <= j
         IN  SubSeq(t, i, e)

\* C9 (original statement): re-parsing the written file yields exactly one
\* record: the first token of the written name, and the written sequence.
C9_Original ==
    pc = "returned" =>
        result = Return(<<[name |-> FirstToken(contigs.name, 1), seq |-> contigs.seq]>>)

\* The records the amended claim covers: the name has a character that is not
\* white space, and the sequence has no lower-case letter, neither starts nor
\* ends with white space and does not start with ">".
C9_Covered ==
    /\ \E i \in DOMAIN contigs.name : contigs.name[i] \notin {" ", "\n", "\t"}
    /\ \A i \in DOMAIN contigs.seq : contigs.seq[i] # "a"
    /\ contigs.seq # <<>> =>
          /\ contigs.seq[1] \notin {" ", "\n", "\t", ">"}
          /\ contigs.seq[Len(contigs.seq)] \notin {" ", "\n", "\t"}

\* C9 (amended): for every record whose name has a character that is not
\* white space and whose sequence has no lower-case letter, no leading or
\* trailing white space and no leading ">", re-parsing the written file yields
\* exactly one record: the first token of the name, and the sequence.
C9_RoundTrip ==
    (pc = "returned" /\ C9_Covered) =>
        result = Return(<<[name |-> FirstToken(contigs.name, 1), seq |-> contigs.seq]>>)

\* C9, reached: a record with a two-token name has been written and parsed back under the
\* name of its first token.
C9_Witness ==
    /\ pc = "returned"
    /\ contigs = [name |-> <<"A", " ", "a">>, seq |-> <<"A", "A">>]
    /\ result = Return(<<[name |-> <<"A">>, seq |-> <<"A", "A">>]>>)

(***************************************************************************)
(* filter_by_query, get_all_mash_distances                                 *)
(***************************************************************************)

\* a < b for two texts: by the first differing character, a proper prefix
\* first.
RECURSIVE str_less(_, _)
str_less(a, b) ==
    IF b = <<>> THEN FALSE
    ELSE IF a = <<>> THEN TRUE
    ELSE IF ord(Head(a)) # ord(Head(b)) THEN ord(Head(a)) < ord(Head(b))
    ELSE str_less(Tail(a), Tail(b))

\* A faulty comparison that orders the entries by distance alone.
tuple_less_mut(x, y) == x[1] < y[1]

\* (dist, query_name) < (dist, query_name): tuples compare element by element.
tuple_less(x, y) == x[1] < y[1] \/ (x[1] = y[1] /\ str_less(x[2], y[2]))

\* sorted(): a stable sort; x goes after the entries that are not greater.
RECURSIVE insert_sorted(_, _)
insert_sorted(x, s) ==
    IF s = <<>> THEN <<x>>
    ELSE IF tuple_less(x, Head(s)) THEN <<x>> \o s
    ELSE <<Head(s)>> \o insert_sorted(x, Tail(s))

RECURSIVE sorted(_, _)
sorted(s, k) == IF k = 0 THEN <<>> ELSE insert_sorted(s[k], sorted(s, k - 1))

\* The two nested loops of get_all_mash_distances, flattened: step k handles
\* query (k-1) \div nc + 1 and contig (k-1) % nc + 1.  tool[<<q, c>>] is what
\* the tool prints for the two files written from q and c.  The first call
\* that does not return ends the loops.
RECURSIVE mash_distances_pairs(_, _, _, _)
mash_distances_pairs(cs, qs, tool, k) ==
    IF k = 0 THEN Return(EmptyDict)
    ELSE LET sofar == mash_distances_pairs(cs, qs, tool, k - 1)
             q == qs[((k - 1) \div Len(cs)) + 1]
             c == cs[((k - 1) % Len(cs)) + 1]
         IN  IF sofar.kind # "return" THEN sofar
             ELSE LET dist == get_mash_distance(tool[<<q, c>>])
                      d == sofar.value
                      old == IF c.name \in DOMAIN d THEN d[c.name] ELSE <<>>
                  IN  IF dist.kind # "return" THEN dist
                      ELSE Return(DictSet(d, c.name, Append(old, <<dist.value, q.name>>)))

\* How many times get_mash_distance has run when the loops end: every pair
\* up to and including the first whose call does not return.
RECURSIVE mash_calls_pairs(_, _, _, _)
mash_calls_pairs(cs, qs, tool, k) ==
    IF k = 0 THEN 0
    ELSE IF mash_distances_pairs(cs, qs, tool, k - 1).kind # "return"
         THEN mash_calls_pairs(cs, qs, tool, k - 1)
         ELSE k

mash_call_count(cs, query_records, tool) ==
    IF query_records.kind # "return" THEN 0
    ELSE mash_calls_pairs(cs, query_records.value, tool,
                          Len(query_records.value) * Len(cs))

\* query_records is what list(iterate_fasta(query_filename)) gives.
get_all_mash_distances(cs, query_records, tool) ==
    IF query_records.kind # "return" THEN query_records
    ELSE mash_distances_pairs(cs, query_records.value, tool,
                              Len(query_records.value) * Len(cs))

\* A faulty comparison: < instead of <=.
within_threshold_mut(closest_distance, mash_threshold) == closest_distance < mash_threshold

within_threshold(closest_distance, mash_threshold) == closest_distance <= mash_threshold

\* The loop over contigs: the matching contigs and the report lines, or the
\* KeyError of closest_distances[name].
RECURSIVE matching_contigs_loop(_, _, _, _)
matching_contigs_loop(cs, closest_distances, mash_threshold, k) ==
    IF k = 0 THEN Return([matching_contigs |-> <<>>, report |-> <<>>])
    ELSE LET sofar == matching_contigs_loop(cs, closest_distances, mash_threshold, k - 1)
             c == cs[k]
         IN  IF sofar.kind # "return" THEN sofar
             ELSE IF c.name \notin DOMAIN closest_distances THEN Raise("KeyError")
             ELSE LET closest == closest_distances[c.name]
                  IN  IF within_threshold(closest[1], mash_threshold)
                      THEN Return([matching_contigs |-> Append(sofar.value.matching_contigs, c),
                                   report |-> Append(sofar.value.report,
                                                     <<c.name, closest[1], closest[2]>>)])
                      ELSE sofar

filter_by_query(cs, query_records, mash_threshold, tool) ==
    LET mash_distances == get_all_mash_distances(cs, query_records, tool)
    IN  IF mash_distances.kind # "return" THEN mash_distances
        ELSE LET d == mash_distances.value
                 closest_distances == [n \in DOMAIN d |-> sorted(d[n], Len(d[n]))[1]]
             IN  matching_contigs_loop(cs, closest_distances, mash_threshold, Len(cs))

\* ---- inputs of SpecQuery ----

MaxQueryContigs == 2

\* Trimmed contigs; two of them share a name, which load_gfa does not forbid.
QueryContigs ==
    {[name |-> "1", seq |-> <<"A", "C">>], [name |-> "2", seq |-> <<"A", "C">>],
     [name |-> "1", seq |-> <<"C">>]}

QueryA == [name |-> <<"A">>, seq |-> <<"A", "C">>]

Querya == [name |-> <<"a">>, seq |-> <<"C", "A">>]

\* No query, one query, and two queries in both file orders.
QueryLists == {<<>>, <<QueryA>>, <<Querya>>, <<QueryA, Querya>>, <<Querya, QueryA>>}

\* The tool prints one line of five parts with a distance, or prints nothing
\* on stdout and a diagnostic on stderr.
MashLine(d) == [stdout |-> << <<"q.fasta", "c.fasta", d, "0", "1/1000">> >>, stderr |-> ""]

MashNothing == [stdout |-> <<>>, stderr |-> "ERROR: could not open file"]

ToolOutputs == {MashLine("0.0"), MashLine("0.1"), MashLine("0.2"), MashNothing}

Range(s) == {s[i] : i \in DOMAIN s}

\* The tool as a function of the pair of records it is run on.
ToolsFor(cs, qs) == [Range(qs) \X Range(cs) -> ToolOutputs]

InitQuery ==
    /\ pc = "filter_by_query"
    /\ contigs \in SeqsOf(QueryContigs, 0, MaxQueryContigs)
    /\ queries \in {Return(q) : q \in QueryLists}
    /\ mash \in ToolsFor(contigs, queries.value)
    /\ args \in [mash : {0, 10}]
    /\ file = None /\ links = None
    /\ stdout = None /\ stderr = None /\ exit_status = None /\ stages = None
    /\ result = None /\ mash_calls = 0 /\ temp_dir = None /\ frame = None

\* filter_by_query returns the matching contigs and prints the report lines.
CallQuery ==
    /\ pc = "filter_by_query"
    /\ LET r == filter_by_query(contigs, queries, args.mash, mash)
       IN  IF r.kind = "return"
           THEN /\ result' = Return(r.value.matching_contigs)
                /\ stderr' = r.value.report
           ELSE /\ result' = r
                /\ stderr' = <<>>
    /\ mash_calls' = mash_call_count(contigs, queries, mash)
    /\ pc' = "returned"
    /\ UNCHANGED <<args, file, contigs, links, queries, mash, stdout,
                   exit_status, stages, temp_dir, frame>>

NextQuery == CallQuery

SpecQuery == InitQuery /\ [][NextQuery]_vars

\* ---- C4 ----

\* The tool behaves as a function distance(query, segment): for every pair it
\* prints exactly one line with a distance.
ToolIsDistance ==
    \A q \in Range(queries.value), c \in Range(contigs) :
        /\ Len(mash[<<q, c>>].stdout) = 1
        /\ mash[<<q, c>>].stdout[1][3] \in {"0.0", "0.05", "0.1", "0.2"}

\* distance(query, segment), in hundredths.
Distance(q, c) ==
    LET t == mash[<<q, c>>].stdout[1][3]
    IN  CASE t = "0.0" -> 0 [] t = "0.05" -> 5 [] t = "0.1" -> 10 [] t = "0.2" -> 20

\* Some query is within the threshold of segment c; with a non-empty query
\* list this is "the minimum distance over all queries is <= the threshold".
MinDistanceWithin(c) ==
    \E j \in DOMAIN queries.value : Distance(queries.value[j], c) <= args.mash

\* The minimum distance over all queries is m.
IsMinDistance(c, m) ==
    /\ \E j \in DOMAIN queries.value : Distance(queries.value[j], c) = m
    /\ \A j \in DOMAIN queries.value : Distance(queries.value[j], c) >= m

DistinctNames ==
    \A i, j \in DOMAIN contigs : contigs[i].name = contigs[j].name => i = j

\* C4 (original statement): for every segment list, every non-empty query list
\* and every threshold, the result is exactly the sub-list, in segment order,
\* of the segments whose minimum distance over all queries is <= the threshold.
C4_Original ==
    (pc = "returned" /\ queries.value # <<>> /\ ToolIsDistance) =>
        result = Return(SubList(contigs, {i \in DOMAIN contigs : MinDistanceWithin(contigs[i])}))

\* C4 (amended): the same, for every segment list whose names are pairwise
\* distinct.
C4_FilterByQuery ==
    (pc = "returned" /\ queries.value # <<>> /\ ToolIsDistance /\ DistinctNames) =>
        result = Return(SubList(contigs, {i \in DOMAIN contigs : MinDistanceWithin(contigs[i])}))

\* C4, reached: two segments and two queries at threshold 0.1: the first segment, whose
\* minimum distance equals the threshold, has been kept and the second, whose
\* minimum is 0.2, dropped.
C4_Witness ==
    /\ pc = "returned"
    /\ args.mash = 10
    /\ Len(contigs) = 2 /\ DistinctNames
    /\ queries.value = <<QueryA, Querya>>
    /\ ToolIsDistance
    /\ Distance(QueryA, contigs[1]) = 20 /\ Distance(Querya, contigs[1]) = 10
    /\ Distance(QueryA, contigs[2]) = 20 /\ Distance(Querya, contigs[2]) = 20
    /\ result = Return(<<contigs[1]>>)

\* ---- C10 ----

\* The report lines are those of the retained segments, in order.
ReportMatchesResult ==
    /\ result.kind = "return"
    /\ Len(stderr) = Len(result.value)
    /\ \A i \in DOMAIN stderr : stderr[i][1] = result.value[i].name

\* The positions of the queries at distance m of segment c.
QueriesAt(c, m) == {j \in DOMAIN queries.value : Distance(queries.value[j], c) = m}

\* C10 (original statement): for every retained segment the reported query
\* achieves the minimum distance, and among several that do it is the first
\* in query-file order.
C10_Original ==
    (pc = "returned" /\ queries.value # <<>> /\ ToolIsDistance) =>
        /\ ReportMatchesResult
        /\ \A i \in DOMAIN stderr :
            LET c == result.value[i]
                J == QueriesAt(c, stderr[i][2])
            IN  /\ IsMinDistance(c, stderr[i][2])
                /\ stderr[i][3] = queries.value[CHOOSE j \in J : \A k \in J : j <= k].name

\* C10 (amended): for every retained segment of a segment list with pairwise
\* distinct names, the reported query achieves the minimum distance, and among
\* several that do it is the one whose name sorts first, whatever the order
\* of the query file.
C10_ClosestQuery ==
    (pc = "returned" /\ queries.value # <<>> /\ ToolIsDistance /\ DistinctNames) =>
        /\ ReportMatchesResult
        /\ \A i \in DOMAIN stderr :
            LET c == result.value[i]
                J == QueriesAt(c, stderr[i][2])
            IN  /\ IsMinDistance(c, stderr[i][2])
                /\ \E j \in J : stderr[i][3] = queries.value[j].name
                /\ \A j \in J : stderr[i][3] = queries.value[j].name
                                \/ str_less(stderr[i][3], queries.value[j].name)

\* C10, reached: query "a" comes first in the file and ties with query "A" at distance 0:
\* "A", whose name sorts first, has been reported.
C10_Witness ==
    /\ pc = "returned"
    /\ queries.value = <<Querya, QueryA>>
    /\ Len(contigs) = 1
    /\ ToolIsDistance
    /\ Distance(Querya, contigs[1]) = 0 /\ Distance(QueryA, contigs[1]) = 0
    /\ stderr = <<<<contigs[1].name, 0, <<"A">>>>>>

(***************************************************************************)
(* check_args, check_file_exists                                           *)
(***************************************************************************)

\* The file system: what each path of the model is.
is_dir(path) == path = "a_directory"

is_file(path) == path = "query.fasta"

check_file_exists(filename) ==
    IF is_dir(filename) THEN SysExit(<<"Error: is a directory, not a file", filename>>)
    ELSE IF ~is_file(filename) THEN SysExit(<<"Error: does not exist", filename>>)
    ELSE Return(None)

\* A faulty check_args that tests --mash with > instead of >=.
check_args_mut(a) ==
    IF a.min # None /\ a.min[1] <= 0
    THEN SysExit("Error: --min must be greater than 0")
    ELSE IF a.max # None /\ a.max[1] <= 0
    THEN SysExit("Error: --max must be greater than 0")
    ELSE IF a.min # None /\ a.max # None /\ a.max[1] < a.min[1]
    THEN SysExit("Error: --max must be greater than or equal to --min")
    ELSE IF a.mash < 0
    THEN SysExit("Error: --mash must be greater than or equal to 0.0")
    ELSE IF a.mash > 100
    THEN SysExit("Error: --mash must be less than 1.0")
    ELSE IF a.query # None
    THEN check_file_exists(a.query[1])
    ELSE Return(None)

\* --mash is held in hundredths: 1.0 is 100.
check_args(a) ==
    IF a.min # None /\ a.min[1] <= 0
    THEN SysExit("Error: --min must be greater than 0")
    ELSE IF a.max # None /\ a.max[1] <= 0
    THEN SysExit("Error: --max must be greater than 0")
    ELSE IF a.min # None /\ a.max # None /\ a.max[1] < a.min[1]
    THEN SysExit("Error: --max must be greater than or equal to --min")
    ELSE IF a.mash < 0
    THEN SysExit("Error: --mash must be greater than or equal to 0.0")
    ELSE IF a.mash >= 100
    THEN SysExit("Error: --mash must be less than 1.0")
    ELSE IF a.query # None
    THEN check_file_exists(a.query[1])
    ELSE Return(None)

(***************************************************************************)
(* load_gfa, output_contigs                                                *)
(***************************************************************************)

\* The loop over the lines of the graph file; a line is its list of
\* tab-separated parts.  "S" appends parts[1:3], "L" appends parts[1:6].
RECURSIVE load_gfa_contigs(_, _)
load_gfa_contigs(lines, k) ==
    IF k = 0 THEN <<>>
    ELSE LET parts == lines[k]
         IN  IF parts[1] = "S"
             THEN Append(load_gfa_contigs(lines, k - 1), [name |-> parts[2], seq |-> parts[3]])
             ELSE load_gfa_contigs(lines, k - 1)

RECURSIVE load_gfa_links(_, _)
load_gfa_links(lines, k) ==
    IF k = 0 THEN <<>>
    ELSE LET parts == lines[k]
         IN  IF parts[1] = "L"
             THEN Append(load_gfa_links(lines, k - 1),
                         [seg_a |-> parts[2], strand_a |-> parts[3], seg_b |-> parts[4],
                          strand_b |-> parts[5], cigar |-> parts[6]])
             ELSE load_gfa_links(lines, k - 1)

\* g.bytes are the leading bytes on disk and g.lines the lines the chosen
\* reader yields.
load_gfa(g) ==
    LET open_func == get_open_func(g.bytes)
    IN  IF open_func.kind # "return" THEN open_func
        ELSE Return([contigs |-> load_gfa_contigs(g.lines, Len(g.lines)),
                     links |-> load_gfa_links(g.lines, Len(g.lines))])

\* print(f'>{name}'); print(seq) for every contig
output_contigs(cs) == [i \in DOMAIN cs |-> <<<<">", cs[i].name>>, cs[i].seq>>]

\* A faulty test that never sees an empty list.
not_contigs_mut(cs) == FALSE

\* "if not contigs:"
not_contigs(cs) == cs = <<>>

\* ---- inputs of Spec ----

S(name, seq) == <<"S", name, seq>>

L(a, sa, b, sb, cigar) == <<"L", a, sa, b, sb, cigar>>

\* The byte of the record-type tag that starts a plain graph file.
TagByte(tag) == CASE tag = "S" -> 83 [] tag = "L" -> 76 [] tag = "H" -> 72 [] tag = "P" -> 80

PlainGfa(lines) == [bytes |-> <<TagByte(lines[1][1])>>, lines |-> lines]

GzipGfa(lines) == [bytes |-> <<31, 139, 8>>, lines |-> lines]

\* One circular segment among three (the shape of the test graph), gzipped.
Graph1 ==
    GzipGfa(<< <<"H", "VN:Z:1.0">>, S("1", <<"A", "C", "G">>), S("2", <<"A", "C", "G", "T">>),
               S("3", <<"A">>), L("2", "+", "2", "+", <<"1", "M">>),
               L("1", "+", "3", "-", <<"0", "M">>) >>)

\* Two circular segments of lengths 2 and 4.
Graph2 ==
    PlainGfa(<< S("1", <<"A", "C">>), L("1", "+", "1", "+", <<"0", "M">>),
                S("2", <<"A", "C", "G", "T">>), L("2", "-", "2", "-", <<"*">>) >>)

\* No circular segment: the self-link of "1" comes with a link to "2".
Graph3 ==
    PlainGfa(<< S("1", <<"A", "C">>), S("2", <<"A">>), L("1", "+", "1", "+", <<"0", "M">>),
                L("1", "+", "2", "+", <<"0", "M">>) >>)

\* A plain graph file whose first line is a path line.
Graph4 ==
    PlainGfa(<< <<"P", "path", "1+">>, S("1", <<"A", "C">>),
                L("1", "+", "1", "+", <<"0", "M">>) >>)

\* An overlap longer than the segment.
Graph5 ==
    PlainGfa(<< S("1", <<"A", "C">>), L("1", "+", "1", "+", <<"1", "2", "M">>) >>)

GfaFiles == {Graph1, Graph2, Graph3, Graph4, Graph5}

\* Query files: empty, one record, and two records in both orders.
QueryFileA == <<">", "A", "\n", "A", "\n">>

QueryFilea == <<">", "a", " ", "a", "\n", "a", "\n", "A", "\n">>

QueryFiles == {<<>>, QueryFileA, QueryFileA \o QueryFilea, QueryFilea \o QueryFileA}

ArgSets ==
    [min : {None, Some(0), Some(3), Some(4)},
     max : {None, Some(0), Some(3)},
     query : {None, Some("query.fasta"), Some("a_directory"), Some("missing")},
     mash : {0 - 1, 0, 10, 100}]

(***************************************************************************)
(* main                                                                    *)
(***************************************************************************)

Init ==
    /\ pc = "check_args"
    /\ args \in ArgSets
    /\ file = None /\ contigs = None /\ links = None /\ queries = None /\ mash = None
    /\ stdout = <<>> /\ stderr = <<>> /\ exit_status = None /\ stages = <<>>
    /\ mash_calls = 0 /\ temp_dir = None /\ frame = None /\ result = None

\* sys.exit(...) or an uncaught exception inside a stage.
Fatal(outcome) ==
    /\ pc' = "exit"
    /\ exit_status' = Some(ExitStatus(outcome))

\* "if not contigs: sys.exit()" after a stage, else on to the next one.
ExitIfEmpty(cs, next) ==
    IF not_contigs(cs)
    THEN /\ pc' = "exit"
         /\ exit_status' = Some(ExitStatus(SysExitNoArg))
    ELSE /\ pc' = next
         /\ UNCHANGED exit_status

CheckArgs ==
    /\ pc = "check_args"
    /\ stages' = Append(stages, "check_args")
    /\ LET r == check_args(args)
       IN  IF r.kind # "return"
           THEN Fatal(r)
           ELSE pc' = "load_gfa" /\ UNCHANGED exit_status
    /\ UNCHANGED <<args, file, contigs, links, queries, mash, stdout, stderr,
                   mash_calls, temp_dir, frame, result>>

LoadGfa ==
    /\ pc = "load_gfa"
    /\ stages' = Append(stages, "load_gfa")
    /\ \E g \in GfaFiles :
        /\ file' = g
        /\ LET r == load_gfa(g)
           IN  IF r.kind # "return"
               THEN Fatal(r) /\ UNCHANGED <<contigs, links>>
               ELSE /\ contigs' = r.value.contigs
                    /\ links' = r.value.links
                    /\ pc' = "find_circular_contigs"
                    /\ UNCHANGED exit_status
    /\ UNCHANGED <<args, queries, mash, stdout, stderr, mash_calls, temp_dir, frame, result>>

FindCircularContigs ==
    /\ pc = "find_circular_contigs"
    /\ stages' = Append(stages, "find_circular_contigs")
    /\ contigs' = find_circular_contigs(contigs, links)
    /\ ExitIfEmpty(contigs', "trim_overlaps")
    /\ UNCHANGED <<args, file, links, queries, mash, stdout, stderr, mash_calls, temp_dir, frame, result>>

TrimOverlaps ==
    /\ pc = "trim_overlaps"
    /\ stages' = Append(stages, "trim_overlaps")
    /\ contigs' = trim_overlaps(contigs)
    /\ pc' = "filter_by_size"
    /\ UNCHANGED <<args, file, links, queries, mash, stdout, stderr, exit_status,
                   mash_calls, temp_dir, frame, result>>

FilterBySize ==
    /\ pc = "filter_by_size"
    /\ args.min # None \/ args.max # None
    /\ stages' = Append(stages, "filter_by_size")
    /\ contigs' = filter_by_size(contigs, args.min, args.max)
    /\ ExitIfEmpty(contigs', "filter_by_query")
    /\ UNCHANGED <<args, file, links, queries, mash, stdout, stderr, mash_calls, temp_dir, frame, result>>

SkipFilterBySize ==
    /\ pc = "filter_by_size"
    /\ ~(args.min # None \/ args.max # None)
    /\ pc' = "filter_by_query"
    /\ UNCHANGED <<args, file, contigs, links, queries, mash, stdout, stderr,
                   exit_status, stages, mash_calls, temp_dir, frame, result>>

FilterByQuery ==
    /\ pc = "filter_by_query"
    /\ args.query # None
    /\ stages' = Append(stages, "filter_by_query")
    /\ \E text \in QueryFiles :
        /\ queries' = iterate_fasta(text)
        /\ \E tool \in ToolsFor(contigs, IF queries'.kind = "return" THEN queries'.value ELSE <<>>) :
            /\ mash' = tool
            /\ mash_calls' = mash_call_count(contigs, queries', tool)
            /\ LET r == filter_by_query(contigs, queries', args.mash, tool)
               IN  IF r.kind # "return"
                   THEN Fatal(r) /\ UNCHANGED <<contigs, stderr>>
                   ELSE /\ contigs' = r.value.matching_contigs
                        /\ stderr' = r.value.report
                        /\ ExitIfEmpty(contigs', "output_contigs")
    /\ UNCHANGED <<args, file, links, stdout, temp_dir, frame, result>>

SkipFilterByQuery ==
    /\ pc = "filter_by_query"
    /\ args.query = None
    /\ pc' = "output_contigs"
    /\ UNCHANGED <<args, file, contigs, links, queries, mash, stdout, stderr,
                   exit_status, stages, mash_calls, temp_dir, frame, result>>

\* After output_contigs main returns and the run ends with status 0.
OutputContigs ==
    /\ pc = "output_contigs"
    /\ stages' = Append(stages, "output_contigs")
    /\ stdout' = stdout \o output_contigs(contigs)
    /\ pc' = "exit"
    /\ exit_status' = Some(0)
    /\ UNCHANGED <<args, file, contigs, links, queries, mash, stderr, mash_calls, temp_dir, frame, result>>

Next ==
    \/ CheckArgs
    \/ LoadGfa
    \/ FindCircularContigs
    \/ TrimOverlaps
    \/ FilterBySize
    \/ SkipFilterBySize
    \/ FilterByQuery
    \/ SkipFilterByQuery
    \/ OutputContigs

Spec == Init /\ [][Next]_vars

\* ---- C5 ----

StageOrder ==
    <<"check_args", "load_gfa", "find_circular_contigs", "trim_overlaps",
      "filter_by_size", "filter_by_query", "output_contigs">>

StageIndex(st) == CHOOSE i \in DOMAIN StageOrder : StageOrder[i] = st

\* The stages run so far are in pipeline order, each at most once, and only
\* the two optional filters may be missing between two of them.
StagesInOrder ==
    /\ \A i \in DOMAIN stages : \E k \in DOMAIN StageOrder : StageOrder[k] = stages[i]
    /\ \A i, j \in DOMAIN stages : i < j => StageIndex(stages[i]) < StageIndex(stages[j])
    /\ \A i \in DOMAIN stages : \A k \in 1..(StageIndex(stages[i]) - 1) :
          StageOrder[k] \in {"filter_by_size", "filter_by_query"}
          \/ \E j \in 1..(i - 1) : stages[j] = StageOrder[k]

\* An optional filter has run exactly when its option was given, once the
\* pipeline is past it.
OptionalStagesAsAsked ==
    /\ (\E i \in DOMAIN stages : stages[i] = "filter_by_size")
          => (args.min # None \/ args.max # None)
    /\ (\E i \in DOMAIN stages : stages[i] \in {"filter_by_query", "output_contigs"})
          => ((\E i \in DOMAIN stages : stages[i] = "filter_by_size")
                <=> (args.min # None \/ args.max # None))
    /\ (\E i \in DOMAIN stages : stages[i] = "filter_by_query") => args.query # None
    /\ (\E i \in DOMAIN stages : stages[i] = "output_contigs")
          => ((\E i \in DOMAIN stages : stages[i] = "filter_by_query") <=> args.query # None)

\* The last stage run is circularity detection or a filter and it has left
\* an empty set.
EndedOnEmptySet ==
    /\ stages # <<>>
    /\ stages[Len(stages)] \in {"find_circular_contigs", "filter_by_size", "filter_by_query"}
    /\ contigs = <<>>

C5_State ==
    /\ StagesInOrder
    /\ OptionalStagesAsAsked
    /\ EndedOnEmptySet =>
          /\ pc = "exit"
          /\ exit_status = Some(0)
          /\ stdout = <<>>
          /\ stages[Len(stages)] # "filter_by_query" => mash_calls = 0 /\ temp_dir = None /\ frame = None

\* A step runs at most one stage, and a run that has ended takes no step.
C5_Step ==
    /\ pc # "exit"
    /\ stages' = stages \/ \E st \in DOMAIN StageOrder : stages' = Append(stages, StageOrder[st])

\* C5: the stages run once, in the order load, circularity detection,
\* trimming, optional size filter, optional query filter, output; whenever the
\* circular set, the size-filtered set or the query-filtered set is empty the
\* run ends at once with exit status 0, no later stage is executed, the
\* distance tool is not run after an empty size-filter result, and no record
\* is written to standard output.
C5_Pipeline == []C5_State /\ [][C5_Step]_vars

\* C5, reached: a run asked for both filters has ended after the size filter left nothing.
C5_Witness ==
    /\ pc = "exit"
    /\ args.min = Some(4) /\ args.query = Some("query.fasta")
    /\ stages = <<"check_args", "load_gfa", "find_circular_contigs", "trim_overlaps",
                  "filter_by_size">>
    /\ contigs = <<>>
    /\ exit_status = Some(0)
    /\ mash_calls = 0 /\ temp_dir = None /\ frame = None

\* ---- C6 ----

\* The argument combinations the claim calls fatal.  "query.fasta" is the
\* one path of the model that is an existing regular file.
C6_BadArgs ==
    \/ args.min # None /\ args.min[1] <= 0
    \/ args.max # None /\ args.max[1] <= 0
    \/ args.min # None /\ args.max # None /\ args.max[1] < args.min[1]
    \/ args.mash < 0
    \/ args.mash >= 100
    \/ args.query # None /\ args.query[1] # "query.fasta"

C6_State ==
    stages # <<>> =>
        /\ C6_BadArgs <=> (exit_status = Some(1) /\ stages = <<"check_args">>)
        /\ C6_BadArgs =>
              /\ pc = "exit"
              /\ file = None /\ contigs = None /\ links = None /\ stdout = <<>>
        /\ (~C6_BadArgs /\ stages = <<"check_args">>) =>
              /\ pc = "load_gfa"
              /\ exit_status = None

\* check_args changes nothing but the control point (and the exit status
\* when it is fatal).
C6_Step ==
    pc = "check_args" =>
        UNCHANGED <<args, file, contigs, links, queries, mash, stdout, stderr,
                    mash_calls, temp_dir, frame, result>>

\* C6: the run ends with a fatal error, before the graph file is read or any
\* stage runs, if and only if min is given and <= 0, or max is given and
\* <= 0, or both are given and max < min, or the threshold is < 0 or >= 1,
\* or a query path is given that is not an existing regular file; otherwise
\* check_args returns normally and changes nothing.
C6_CheckArgs == []C6_State /\ [][C6_Step]_vars

\* C6, reached: --min 4 --max 3 has ended the run in check_args with status 1.
C6_Witness ==
    /\ pc = "exit"
    /\ args.min = Some(4) /\ args.max = Some(3) /\ args.mash = 10 /\ args.query = None
    /\ stages = <<"check_args">>
    /\ exit_status = Some(1)

(***************************************************************************)
(* get_all_mash_distances, step by step, with its temporary directory      *)
(***************************************************************************)

\* A faulty release that removes the directory only when the block is left
\* by falling off its end.
cleanup_mut(td, outcome) == IF outcome.kind = "return" THEN None ELSE td

\* Leaving "with tempfile.TemporaryDirectory() as temp_dir": the directory
\* and everything in it are removed, whether the block is left by falling off
\* its end, by SystemExit or by any other exception.
cleanup(td, outcome) == None

\* ---- inputs of SpecTempDir ----

\* A query file that is a zip archive: iterate_fasta ends the run on it.
QueryFileZip == <<"P", "K", "\n">>

TempDirQueryFiles ==
    {<<>>, <<">", "A", "\n", "A", "\n">>,
     <<">", "A", "\n", "A", "\n", ">", "a", " ", "a", "\n", "a", "\n">>, QueryFileZip}

\* One line of one part: parts[2] raises IndexError.
MashShortLine == [stdout |-> << <<"q.fasta">> >>, stderr |-> ""]

TempDirToolOutputs == {MashLine("0.0"), MashLine("0.1"), MashNothing, MashShortLine}

MaxTempDirContigs == 2

InitTempDir ==
    /\ pc = "get_all_mash_distances"
    /\ contigs \in SeqsOf(QueryContigs, 0, MaxTempDirContigs)
    /\ file \in TempDirQueryFiles
    /\ temp_dir = None
    /\ frame = None
    /\ mash_calls = 0
    /\ args = None /\ links = None /\ queries = None /\ mash = None
    /\ stdout = None /\ stderr = None /\ exit_status = None /\ stages = None
    /\ result = None

\* The block is left with an outcome: the directory is released and the
\* outcome (the returned dict, SystemExit or an exception) goes to the caller.
LeaveWith(outcome) ==
    /\ temp_dir' = cleanup(temp_dir, outcome)
    /\ result' = outcome
    /\ pc' = "returned"

\* mash_distances = ...; with tempfile.TemporaryDirectory() as temp_dir:
\* the directory is created, empty.
EnterTempDir ==
    /\ pc = "get_all_mash_distances"
    /\ temp_dir' = Some(EmptyDict)
    /\ frame' = [query_index |-> 1, contig_index |-> 1, mash_distances |-> EmptyDict]
    /\ pc' = "for_query"
    /\ UNCHANGED <<args, file, contigs, links, queries, mash, stdout, stderr,
                   exit_status, stages, mash_calls, result>>

\* for query_name, query_seq in iterate_fasta(query_filename): the generator
\* runs inside the block, so its fatal exit leaves the block; when it is
\* exhausted the block ends and mash_distances is returned; otherwise
\* query.fasta is written.
ForQuery ==
    /\ pc = "for_query"
    /\ queries' = iterate_fasta(file)
    /\ IF queries'.kind # "return"
       THEN LeaveWith(queries') /\ UNCHANGED frame
       ELSE IF frame.query_index > Len(queries'.value)
       THEN LeaveWith(Return(frame.mash_distances)) /\ UNCHANGED frame
       ELSE LET q == queries'.value[frame.query_index]
            IN  /\ temp_dir' = Some(DictSet(temp_dir[1], "query.fasta",
                                            write_fasta(q.name, q.seq)))
                /\ frame' = [frame EXCEPT !.contig_index = 1]
                /\ pc' = "for_contig"
                /\ UNCHANGED result
    /\ UNCHANGED <<args, file, contigs, links, mash, stdout, stderr,
                   exit_status, stages, mash_calls>>

\* for contig_name, contig_seq in contigs: contig.fasta is written, or the
\* inner loop ends and the outer loop goes on to the next query.
ForContig ==
    /\ pc = "for_contig"
    /\ IF frame.contig_index > Len(contigs)
       THEN /\ frame' = [frame EXCEPT !.query_index = @ + 1]
            /\ pc' = "for_query"
            /\ UNCHANGED temp_dir
       ELSE LET c == contigs[frame.contig_index]
            IN  /\ temp_dir' = Some(DictSet(temp_dir[1], "contig.fasta",
                                            write_fasta(<<c.name>>, c.seq)))
                /\ pc' = "get_mash_distance"
                /\ UNCHANGED frame
    /\ UNCHANGED <<args, file, contigs, links, queries, mash, stdout, stderr,
                   exit_status, stages, mash_calls, result>>

\* dist = get_mash_distance(query_fasta, contig_fasta) and the append to
\* mash_distances[contig_name]; sys.exit or an exception in the call leaves
\* the block.
GetMashDistance ==
    /\ pc = "get_mash_distance"
    /\ \E p \in TempDirToolOutputs :
        /\ mash' = p
        /\ LET dist == get_mash_distance(p)
               q == queries.value[frame.query_index]
               c == contigs[frame.contig_index]
               d == frame.mash_distances
               old == IF c.name \in DOMAIN d THEN d[c.name] ELSE <<>>
           IN  IF dist.kind # "return"
               THEN LeaveWith(dist) /\ UNCHANGED frame
               ELSE /\ frame' = [frame EXCEPT
                                   !.mash_distances =
                                       DictSet(d, c.name, Append(old, <<dist.value, q.name>>)),
                                   !.contig_index = @ + 1]
                    /\ pc' = "for_contig"
                    /\ UNCHANGED <<temp_dir, result>>
    /\ mash_calls' = mash_calls + 1
    /\ UNCHANGED <<args, file, contigs, links, queries, stdout, stderr,
                   exit_status, stages>>

NextTempDir == EnterTempDir \/ ForQuery \/ ForContig \/ GetMashDistance

SpecTempDir == InitTempDir /\ [][NextTempDir]_vars

\* ---- C11 ----

\* The call is running: it has entered the block and has not left it.
TempDirCallRunning == pc \in {"for_query", "for_contig", "get_mash_distance"}

\* C11: the temporary directory holding the query and contig sequence files
\* exists only while the distance collection is running; on every exit path
\* of the call (normal return after all pairs, fatal termination raised by a
\* collaborator call, any other error inside the loop) the directory and its
\* files have been removed by the time the call has ended.
C11_TempDir ==
    /\ temp_dir # None => TempDirCallRunning
    /\ pc = "returned" =>
        /\ result.kind \in {"return", "exit", "raise"}
        /\ temp_dir = None

\* C11, reached: the call has ended with an IndexError raised by
\* get_mash_distance after a first pair had been measured (so both files had
\* been written), and the directory is gone.
C11_Witness ==
    /\ pc = "returned"
    /\ result = Raise("IndexError")
    /\ mash_calls = 2
    /\ DOMAIN frame.mash_distances # {}
    /\ temp_dir = None

\* ---- C13 ----

\* The run got as far as filter_by_query and the query file yielded zero
\* query sequences there; the segment list handed to filter_by_query is never
\* empty, because main leaves after every stage that empties it.
RanWithNoQueries ==
    /\ stages # <<>>
    /\ stages[Len(stages)] = "filter_by_query"
    /\ queries.kind = "return"
    /\ queries.value = <<>>

\* C13: when the query file yields zero query sequences and the segment list
\* is non-empty, filter_by_query returns the empty list without raising an
\* error and the run ends as an empty-result termination with exit status 0.
\* The code does not do this: closest_distances is empty, and looking up the
\* first segment in it raises KeyError, which ends the run with status 1.
C13_NoQueries ==
    (pc = "exit" /\ RanWithNoQueries) =>
        /\ contigs = <<>>
        /\ exit_status = Some(0)

====
